---- MODULE Spec2Model ----
(***************************************************************************)
(* ConceptNet path finder (src/main.py): the RateLimiter, the node cache   *)
(* of ConceptNetPathfinder with its JSON file, get_edges, the              *)
(* bi-directional breadth-first search of find_path and                    *)
(* reconstruct_and_print_path.                                             *)
(***************************************************************************)
EXTENDS Integers, Sequences, FiniteSets, TLC

\* ------------------------------------------------------------------ bounds
NumNodes == 3       \* node identifiers of the small remote graphs: 1..NumNodes
MaxEdges == 2       \* edges of a small remote graph
MaxSearches == 2    \* find_path calls on one engine
MaxFaults == 2      \* things that go wrong in one run: failed fetches, failed saves,
                    \* KeyboardInterrupts, slow requests, ticks slept too long
MaxHalf == 2        \* steps of a half-path handed to the reconstructor
NumThreads == 2     \* concurrent callers of RateLimiter.wait
MaxCalls == 4       \* calls of RateLimiter.wait
MaxClock == 6       \* last tick of the monotonic clock while no caller sleeps
MaxLatency == 2     \* ticks that pass while one request is out

\* ------------------------------------------------------- program constants
DepthLimit == 10    \* the pruning bound of find_path
Delay == 2          \* RateLimiter.delay, 1.0 / requests_per_second, in ticks

\* ------------------------------------------------------------ remote graph
\* An edge of the remote service: relation label ("" when the reply carries
\* no label), start endpoint, end endpoint.
Nodes == 1..NumNodes

\* The endpoint of an edge whose description carries no '@id': .get('@id')
\* gives None.
NoId == -1

\* The string "null", which json.dump writes for the key None.
NullKey == -2

ServiceEdges == [rel : {"IsA"}, start : Nodes, end : Nodes]

SeqsUpTo(S, n) == UNION {[1..k -> S] : k \in 0..n}

\* A line of len edges over the nodes 1..len+1; the edges point alternately
\* up and down the line and every third one carries no label.
Chain(len) ==
    [i \in 1..len |->
        [rel   |-> IF i % 3 = 0 THEN "" ELSE "PartOf",
         start |-> IF i % 2 = 1 THEN i ELSE i + 1,
         end   |-> IF i % 2 = 1 THEN i + 1 ELSE i]]

\* k leaves around node n, named from first on.
Leaves(n, first, k) ==
    [i \in 1..k |-> [rel |-> "HasA", start |-> n, end |-> first + i - 1]]

\* A line too long to search from end to end, with one more leaf on the
\* node DepthLimit edges from its first node.
Fork ==
    Chain(2 * DepthLimit + 3)
        \o <<[rel |-> "HasA", start |-> DepthLimit + 1, end |-> 2 * DepthLimit + 5]>>

\* Node n is an endpoint of edge e.
Touches(e, n) == e.start = n \/ e.end = n

\* An edge of which the service names one endpoint at most.
UnnamedEdges ==
    {e \in [rel : {"IsA"}, start : Nodes \cup {NoId}, end : Nodes \cup {NoId}] :
        e.start = NoId \/ e.end = NoId}

\* The remote graphs searched: every small graph; the graphs in which an
\* edge at node 1 lacks the identifier of its other endpoint, next to any
\* edges at node 2; lines whose two ends are
\* DepthLimit edges apart and more than twice DepthLimit edges apart; a
\* line of DepthLimit edges whose far end also has DepthLimit leaves, which
\* the service lists first; and the forked long line.
Graphs ==
    {[edges |-> g, ids |-> Nodes] : g \in SeqsUpTo(ServiceEdges, MaxEdges)}
    \cup {[edges |-> <<e>> \o g, ids |-> {1, 2}] :
             e \in {u \in UnnamedEdges : Touches(u, 1)},
             g \in SeqsUpTo({u \in ServiceEdges \cup UnnamedEdges : Touches(u, 2)},
                            MaxEdges - 1)}
    \cup {[edges |-> Chain(len), ids |-> {1, len + 1}] :
             len \in {DepthLimit, 2 * DepthLimit + 3}}
    \cup {[edges |-> Leaves(DepthLimit + 1, DepthLimit + 2, DepthLimit)
                        \o Chain(DepthLimit),
            ids |-> {1, DepthLimit + 1}]}
    \cup {[edges |-> Fork, ids |-> {1, 2 * DepthLimit + 4}]}

\* The reply of the service for a node: the edges with that node as an
\* endpoint, in the service's order.
Query(g, n) == SelectSeq(g, LAMBDA e : Touches(e, n))

\* -------------------------------------------------------------- get_edges
EdgeOfOutgoingOnly(edge, node_uri) ==
    LET rel_label == IF edge.rel = "" THEN "relatedTo" ELSE edge.rel
    IN  IF edge.start = node_uri
        THEN <<[rel |-> rel_label, nbr |-> edge.end, dir |-> "-->", py |-> "tuple"]>>
        ELSE <<>>

\* One edge of the reply, as get_edges records it (a 3-tuple), or <<>> when
\* the queried node is neither endpoint.
EdgeOf(edge, node_uri) ==
    LET rel_label == IF edge.rel = "" THEN "relatedTo" ELSE edge.rel
    IN  IF edge.start = node_uri
        THEN <<[rel |-> rel_label, nbr |-> edge.end, dir |-> "-->", py |-> "tuple"]>>
        ELSE IF edge.end = node_uri
        THEN <<[rel |-> rel_label, nbr |-> edge.start, dir |-> "<--", py |-> "tuple"]>>
        ELSE <<>>

RECURSIVE ParseEdges(_, _, _)
ParseEdges(data, i, node_uri) ==
    IF i > Len(data) THEN <<>>
    ELSE EdgeOf(data[i], node_uri) \o ParseEdges(data, i + 1, node_uri)

\* What the service can do to one request.
FetchOutcomes == {"ok", "RequestException", "KeyError"}

\* How the request for node n can end.  For None the URL of line 87 is
\* "http://api.conceptnet.ioNone", which names no host: session.get raises a
\* ConnectionError, a RequestException.
OutcomesFor(n) == IF n = NoId THEN {"RequestException"} ELSE FetchOutcomes

\* ----------------------------------------------------- path reconstruction
Reverse(s) == [i \in 1..Len(s) |-> s[Len(s) + 1 - i]]

Arrow(direction) == IF direction = "-->" THEN "-->" ELSE "<--"

FlipDirKept(dir_from_end) == dir_from_end

FlipDir(dir_from_end) == IF dir_from_end = "-->" THEN "<--" ELSE "-->"

\* The lines printed by reconstruct_and_print_path: the start node, then one
\* line per step with its arrow, relation and node.
ReconstructPath(s, e, p_fwd, p_bwd) ==
    LET fwd_lines == [i \in 1..Len(p_fwd) |->
                        [arrow |-> Arrow(p_fwd[i].dir), rel |-> p_fwd[i].rel,
                         node |-> p_fwd[i].nbr]]
        path_bwd_nodes == Reverse(<<e>> \o [i \in 1..Len(p_bwd) |-> p_bwd[i].nbr])
        reversed_rels == Reverse(p_bwd)
        bwd_lines == [i \in 1..Len(reversed_rels) |->
                        [arrow |-> Arrow(FlipDir(reversed_rels[i].dir)),
                         rel |-> reversed_rels[i].rel,
                         node |-> path_bwd_nodes[i + 1]]]
    IN  [head |-> s, steps |-> fwd_lines \o bwd_lines]

NoOutput == [head |-> 0, steps |-> <<>>]

\* ----------------------------------------------------------------- search
\* (rel, neighbor, direction): the tuple the edge loop builds from an
\* element of the edge list, be the element a tuple or a list.
PathStep(e) == [rel |-> e.rel, nbr |-> e.nbr, dir |-> e.dir, py |-> "tuple"]

RECURSIVE ScanEdgesRecordFirst(_, _, _, _, _, _)
ScanEdgesRecordFirst(es, i, path, paths_own, queue_own, paths_other) ==
    IF i > Len(es)
    THEN [found |-> FALSE, paths |-> paths_own, queue |-> queue_own,
          new_path |-> <<>>, other_path |-> <<>>]
    ELSE LET new_path == Append(path, PathStep(es[i]))
             neighbor == es[i].nbr
             fresh == neighbor \notin DOMAIN paths_own
             recorded == IF fresh THEN paths_own @@ (neighbor :> new_path) ELSE paths_own
             queued == IF fresh THEN Append(queue_own, <<neighbor, new_path>>)
                       ELSE queue_own
         IN  IF neighbor \in DOMAIN paths_other
             THEN [found |-> TRUE, paths |-> recorded, queue |-> queued,
                   new_path |-> new_path, other_path |-> paths_other[neighbor]]
             ELSE ScanEdgesRecordFirst(es, i + 1, path, recorded, queued, paths_other)

RECURSIVE ScanEdgesRevisit(_, _, _, _, _, _)
ScanEdgesRevisit(es, i, path, paths_own, queue_own, paths_other) ==
    IF i > Len(es)
    THEN [found |-> FALSE, paths |-> paths_own, queue |-> queue_own,
          new_path |-> <<>>, other_path |-> <<>>]
    ELSE LET new_path == Append(path, PathStep(es[i]))
             neighbor == es[i].nbr
         IN  IF neighbor \in DOMAIN paths_other
             THEN [found |-> TRUE, paths |-> paths_own, queue |-> queue_own,
                   new_path |-> new_path, other_path |-> paths_other[neighbor]]
             ELSE ScanEdgesRevisit(es, i + 1, path,
                                   (neighbor :> new_path) @@ paths_own,
                                   Append(queue_own, <<neighbor, new_path>>),
                                   paths_other)

RECURSIVE ScanEdgesStalePath(_, _, _, _, _, _)
ScanEdgesStalePath(es, i, path, paths_own, queue_own, paths_other) ==
    IF i > Len(es)
    THEN [found |-> FALSE, paths |-> paths_own, queue |-> queue_own,
          new_path |-> <<>>, other_path |-> <<>>]
    ELSE LET new_path == Append(path, PathStep(es[i]))
             neighbor == es[i].nbr
         IN  IF neighbor \in DOMAIN paths_other
             THEN [found |-> TRUE, paths |-> paths_own, queue |-> queue_own,
                   new_path |-> path, other_path |-> paths_other[neighbor]]
             ELSE IF neighbor \notin DOMAIN paths_own
             THEN ScanEdgesStalePath(es, i + 1, path,
                                     paths_own @@ (neighbor :> new_path),
                                     Append(queue_own, <<neighbor, new_path>>),
                                     paths_other)
             ELSE ScanEdgesStalePath(es, i + 1, path, paths_own, queue_own, paths_other)

\* The loop over the edges of one expanded node: stops at the first neighbor
\* the other frontier has visited, otherwise records and enqueues every
\* neighbor its own frontier has not visited.
RECURSIVE ScanEdges(_, _, _, _, _, _)
ScanEdges(es, i, path, paths_own, queue_own, paths_other) ==
    IF i > Len(es)
    THEN [found |-> FALSE, paths |-> paths_own, queue |-> queue_own,
          new_path |-> <<>>, other_path |-> <<>>]
    ELSE LET new_path == Append(path, PathStep(es[i]))
             neighbor == es[i].nbr
         IN  IF neighbor \in DOMAIN paths_other
             THEN [found |-> TRUE, paths |-> paths_own, queue |-> queue_own,
                   new_path |-> new_path, other_path |-> paths_other[neighbor]]
             ELSE IF neighbor \notin DOMAIN paths_own
             THEN ScanEdges(es, i + 1, path,
                            paths_own @@ (neighbor :> new_path),
                            Append(queue_own, <<neighbor, new_path>>),
                            paths_other)
             ELSE ScanEdges(es, i + 1, path, paths_own, queue_own, paths_other)

Empty == <<>>

VARIABLES
    graph,            \* the remote graph and the node ids callers ask about
    file,             \* the cache file
    node_cache,       \* ConceptNetPathfinder.node_cache
    pc,               \* where the engine is
    start_node, end_node,
    queue_fwd, paths_fwd, queue_bwd, paths_bwd,
    current, path,    \* the entry dequeued last (current_fwd/bwd, path_fwd/bwd)
    node_uri, side,   \* the get_edges call in progress and the frontier it serves
    edges,            \* the edge list get_edges returned
    raised,           \* the exception travelling up through find_path
    half_fwd, half_bwd, printed,  \* the reconstructor's arguments and output
    outcome,          \* how the last find_path ended
    load_log,         \* what load_cache printed
    nodes_processed,  \* dequeues of this find_path call
    gets,             \* get_edges calls of this find_path call
    waits, requests, saves,  \* throttle waits, network requests, cache saves of this call
    searches,         \* find_path calls so far
    fetched_ok,       \* node -> the edges its first successful fetch returned
    fetch_failed,     \* nodes whose fetch failed during this find_path call
    cold,             \* this find_path call began with an empty cache
    loaded,           \* the mapping load_cache gave this engine
    saved,            \* the in-memory mapping save_cache last wrote out
    added,            \* node -> the list get_edges stored for it during this call
    save_log,         \* what save_cache printed during this call
    last_pop,         \* the queue this call dequeued from last
    faults,           \* what has gone wrong so far, see MaxFaults
    clock,            \* time.monotonic(), in ticks
    last_request_time, lock,  \* RateLimiter fields; lock is the holder or 0
    tpc, now, wake,   \* per caller of wait(): position, local now, end of its sleep
    prev_permit,      \* the value last_request_time had before its last update
    permits           \* updates of last_request_time so far

search_vars == <<start_node, end_node, queue_fwd, paths_fwd, queue_bwd, paths_bwd,
                 current, path>>
call_vars == <<node_uri, side, edges>>
out_vars == <<half_fwd, half_bwd, printed>>
count_vars == <<nodes_processed, gets, waits, requests, saves>>
fetch_hist == <<fetched_ok, fetch_failed, cold>>
hist_vars == <<fetch_hist, loaded, saved, added, save_log, last_pop, faults>>

rl_vars == <<clock, last_request_time, lock, tpc, now, wake, prev_permit, permits>>

vars == <<graph, file, node_cache, pc, search_vars, call_vars, raised, out_vars,
          outcome, load_log, count_vars, searches, hist_vars, rl_vars>>

\* ------------------------------------------------------------- cache file
\* The file json.dump writes for a cache: a JSON object of arrays of
\* 3-element arrays.
\* The key json.dump writes for a key of the cache: a string as it is,
\* None as "null".
JsonKey(n) == IF n = NoId THEN NullKey ELSE n

\* The key of the cache whose list a reader of the file finds under k.  When
\* the cache holds both "null" (loaded from the file) and None (stored
\* later), json.dump writes "null" twice and json.load keeps the second.
KeyRead(cache, k) == IF k = NullKey /\ NoId \in DOMAIN cache THEN NoId ELSE k

Dump(cache) ==
    [kind |-> "object",
     map |-> [k \in {JsonKey(n) : n \in DOMAIN cache} |->
                LET es == cache[KeyRead(cache, k)]
                IN  [i \in 1..Len(es) |-> <<es[i].rel, es[i].nbr, es[i].dir>>]]]

\* The mapping json.load builds from a JSON object: every array is a list.
Parse(f) ==
    [n \in DOMAIN f.map |->
        [i \in 1..Len(f.map[n]) |->
            [rel |-> f.map[n][i][1], nbr |-> f.map[n][i][2], dir |-> f.map[n][i][3],
             py |-> "list"]]]

Absent == [kind |-> "absent", map |-> Empty]

\* What load_cache does with a file: the exception that leaves it ("none"
\* when none does), the cache it sets and the line it prints.  Only
\* json.JSONDecodeError is caught: a file that cannot be opened (OSError) or
\* whose bytes are not UTF-8 (UnicodeDecodeError) raises out of load_cache.
LoadResult(f) ==
    IF f.kind = "absent"
    THEN [raised |-> "none", cache |-> Empty, log |-> "No cache file found"]
    ELSE IF f.kind = "unreadable"
    THEN [raised |-> "OSError", cache |-> Empty, log |-> "Loading cache"]
    ELSE IF f.kind = "undecodable"
    THEN [raised |-> "UnicodeDecodeError", cache |-> Empty, log |-> "Loading cache"]
    ELSE IF f.kind = "corrupt"
    THEN [raised |-> "none", cache |-> Empty, log |-> "Cache file is corrupt"]
    ELSE [raised |-> "none", cache |-> Parse(f), log |-> "Loaded"]

\* ------------------------------------------------------------ initial state
\* No search has run and none is running.
SearchIdle ==
    /\ node_cache = Empty
    /\ queue_fwd = <<>> /\ paths_fwd = Empty
    /\ queue_bwd = <<>> /\ paths_bwd = Empty
    /\ current = 0 /\ path = <<>>
    /\ node_uri = 0 /\ side = "none" /\ edges = <<>>
    /\ raised = "none"
    /\ printed = NoOutput
    /\ outcome = "none" /\ load_log = "none"
    /\ nodes_processed = 0 /\ gets = 0 /\ waits = 0 /\ requests = 0 /\ saves = 0
    /\ searches = 0
    /\ fetched_ok = Empty /\ fetch_failed = {} /\ cold = TRUE
    /\ loaded = Empty /\ saved = Empty /\ added = Empty
    /\ save_log = "none" /\ last_pop = "none"
    /\ faults = 0

NoArguments ==
    /\ start_node = 0 /\ end_node = 0
    /\ half_fwd = <<>> /\ half_bwd = <<>>

NoGraph == [edges |-> <<>>, ids |-> {}]

Threads == 1..NumThreads

\* RateLimiter.__init__, with no caller in wait().
LimiterIdle ==
    /\ clock = 0
    /\ last_request_time = 0 /\ lock = 0
    /\ tpc = [t \in Threads |-> "idle"]
    /\ now = [t \in Threads |-> 0]
    /\ wake = [t \in Threads |-> 0]
    /\ prev_permit = 0 /\ permits = 0

\* ConceptNetPathfinder() is being constructed on a machine with no cache
\* file, whose monotonic clock has run for the limiter's delay.
Init ==
    /\ graph \in Graphs
    /\ SearchIdle
    /\ NoArguments
    /\ clock = Delay
    /\ last_request_time = 0 /\ lock = 0
    /\ tpc = [t \in Threads |-> "idle"]
    /\ now = [t \in Threads |-> 0]
    /\ wake = [t \in Threads |-> 0]
    /\ prev_permit = 0 /\ permits = 0
    /\ file = Absent
    /\ pc = "new"

\* ------------------------------------------------- RateLimiter.wait, by step
engine_vars == <<graph, file, node_cache, pc, search_vars, call_vars, raised, out_vars,
                 outcome, load_log, count_vars, searches, hist_vars>>

LockFreeAlways(l) == TRUE

\* The lock of the limiter is free.
LockFree(l) == l = 0

ReleasedNever(t) == t

\* The holder of the lock once caller t has left the with block.
Released(t) == 0

\* A caller enters wait().
Enter(t) ==
    /\ tpc[t] = "idle"
    /\ tpc' = [tpc EXCEPT ![t] = "lock"]
    /\ UNCHANGED <<clock, last_request_time, lock, now, wake, prev_permit, permits>>

\* One of the callers sharing a limiter enters wait().
CallWait(t) ==
    /\ permits + Cardinality({u \in Threads : tpc[u] # "idle"}) < MaxCalls
    /\ Enter(t)

\* The thread find_path runs in.
Caller == 1

\* with self.lock: the caller gets the lock once it is free.
Acquire(t) ==
    /\ tpc[t] = "lock"
    /\ LockFree(lock)
    /\ lock' = t
    /\ tpc' = [tpc EXCEPT ![t] = "locked"]
    /\ UNCHANGED <<clock, last_request_time, now, wake, prev_permit, permits>>

\* now, elapsed and the test elapsed < delay; the sleep, when there is one,
\* ends no earlier than now + (delay - elapsed).
CheckElapsed(t) ==
    /\ tpc[t] = "locked"
    /\ now' = [now EXCEPT ![t] = clock]
    /\ LET elapsed == clock - last_request_time
       IN  IF elapsed < Delay
           THEN /\ wake' = [wake EXCEPT ![t] = clock + (Delay - elapsed)]
                /\ tpc' = [tpc EXCEPT ![t] = "sleep"]
           ELSE /\ tpc' = [tpc EXCEPT ![t] = "stamp"]
                /\ UNCHANGED wake
    /\ UNCHANGED <<clock, last_request_time, lock, prev_permit, permits>>

\* time.sleep returns.
WakeUp(t) ==
    /\ tpc[t] = "sleep"
    /\ clock >= wake[t]
    /\ tpc' = [tpc EXCEPT ![t] = "stamp"]
    /\ UNCHANGED <<clock, last_request_time, lock, now, wake, prev_permit, permits>>

\* last_request_time = time.monotonic(), and the lock is released.
Stamp(t) ==
    /\ tpc[t] = "stamp"
    /\ prev_permit' = last_request_time
    /\ last_request_time' = clock
    /\ permits' = permits + 1
    /\ lock' = Released(t)
    /\ tpc' = [tpc EXCEPT ![t] = "idle"]
    /\ UNCHANGED <<clock, now, wake>>

\* The monotonic clock advances; it runs on past MaxClock until the sleep
\* in progress has ended.
Tick ==
    /\ clock < MaxClock \/ \E t \in Threads : tpc[t] = "sleep" /\ clock < wake[t]
    /\ clock' = clock + 1
    /\ UNCHANGED <<last_request_time, lock, tpc, now, wake, prev_permit, permits>>

\* ------------------------------------------------------------------ actions
\* __init__: load_cache; an exception leaves the constructor.
LoadCache ==
    /\ pc = "new"
    /\ LET r == LoadResult(file)
       IN  /\ node_cache' = r.cache
           /\ raised' = r.raised
           /\ load_log' = r.log
           /\ loaded' = r.cache
           /\ pc' = IF r.raised = "none" THEN "idle" ELSE "crashed"
    /\ UNCHANGED <<graph, file, search_vars, call_vars, out_vars, outcome, count_vars,
                   searches, fetch_hist, saved, added, save_log, last_pop, faults,
                   rl_vars>>

\* How far the constructor has got when a KeyboardInterrupt leaves it: the
\* cache it has set so far and the line it printed last.  The interrupt
\* arrives after os.path.exists, after one of the prints, after the with
\* block has assigned the loaded mapping, or in the rest of __init__.
InterruptedLoads(f) ==
    {[cache |-> Empty, log |-> "none"]}
    \cup (IF f.kind = "absent"
          THEN {[cache |-> Empty, log |-> "No cache file found"]}
          ELSE {[cache |-> Empty, log |-> "Loading cache"]})
    \cup (IF f.kind = "corrupt"
          THEN {[cache |-> Empty, log |-> "Cache file is corrupt"]}
          ELSE {})
    \cup (IF f.kind = "object"
          THEN {[cache |-> Parse(f), log |-> "Loading cache"],
                [cache |-> Parse(f), log |-> "Loaded"]}
          ELSE {})

\* KeyboardInterrupt in __init__: nothing catches it, the constructor
\* raises and no engine exists.
LoadCacheInterrupted ==
    /\ pc = "new"
    /\ faults < MaxFaults
    /\ faults' = faults + 1
    /\ \E r \in InterruptedLoads(file) :
          /\ node_cache' = r.cache
          /\ load_log' = r.log
          /\ loaded' = r.cache
    /\ raised' = "KeyboardInterrupt"
    /\ pc' = "crashed"
    /\ UNCHANGED <<graph, file, search_vars, call_vars, out_vars, outcome, count_vars,
                   searches, fetch_hist, saved, added, save_log, last_pop, rl_vars>>

SameNodeNever(s, e) == FALSE

\* The test find_path makes before anything else.
SameNode(s, e) == s = e

\* The small graphs are all the graphs over Nodes, so the first question
\* asked about one of them starts at node 1: a first question starting
\* elsewhere is this one on the graph with its nodes renamed.
Renamed(s) == (searches = 0 /\ graph.ids = Nodes) => s = 1

\* find_path(s, e) up to the loop: the same-node return, or the two fresh
\* frontiers.
FindPath(s, e) ==
    /\ pc = "idle"
    /\ searches < MaxSearches
    /\ Renamed(s)
    /\ searches' = searches + 1
    /\ start_node' = s /\ end_node' = e
    /\ nodes_processed' = 0 /\ gets' = 0 /\ waits' = 0 /\ requests' = 0 /\ saves' = 0
    /\ raised' = "none"
    /\ current' = 0 /\ path' = <<>>
    /\ half_fwd' = <<>> /\ half_bwd' = <<>> /\ printed' = NoOutput
    /\ IF SameNode(s, e)
       THEN /\ outcome' = "Same"
            /\ pc' = "idle"
            /\ queue_fwd' = <<>> /\ paths_fwd' = Empty
            /\ queue_bwd' = <<>> /\ paths_bwd' = Empty
       ELSE /\ outcome' = "running"
            /\ pc' = "while"
            /\ queue_fwd' = <<<<s, <<>>>>>> /\ paths_fwd' = (s :> <<>>)
            /\ queue_bwd' = <<<<e, <<>>>>>> /\ paths_bwd' = (e :> <<>>)
    /\ fetch_failed' = {} /\ cold' = (DOMAIN node_cache = {})
    /\ added' = Empty /\ save_log' = "none" /\ last_pop' = "none"
    /\ UNCHANGED <<graph, file, node_cache, call_vars, load_log, fetched_ok, loaded,
                   saved, faults, rl_vars>>

\* How much of lines 159-166 is done when find_path is cut short before
\* its try: nothing, the forward frontier, both frontiers.
SetupStages == 0..2

\* KeyboardInterrupt arrives in find_path(s, e) before its try, in one of
\* the prints or after one of the calls of lines 159-168: the exception
\* leaves find_path with the frontiers made so far and nothing saved.
FindPathInterrupted(s, e, stage) ==
    /\ pc = "idle"
    /\ SameNode(s, e) => stage = 0
    /\ searches < MaxSearches
    /\ Renamed(s)
    /\ faults < MaxFaults
    /\ faults' = faults + 1
    /\ searches' = searches + 1
    /\ start_node' = s /\ end_node' = e
    /\ nodes_processed' = 0 /\ gets' = 0 /\ waits' = 0 /\ requests' = 0 /\ saves' = 0
    /\ raised' = "KeyboardInterrupt"
    /\ outcome' = "Error"
    /\ pc' = "raised"
    /\ current' = 0 /\ path' = <<>>
    /\ half_fwd' = <<>> /\ half_bwd' = <<>> /\ printed' = NoOutput
    /\ queue_fwd' = IF stage >= 1 THEN <<<<s, <<>>>>>> ELSE <<>>
    /\ paths_fwd' = IF stage >= 1 THEN (s :> <<>>) ELSE Empty
    /\ queue_bwd' = IF stage >= 2 THEN <<<<e, <<>>>>>> ELSE <<>>
    /\ paths_bwd' = IF stage >= 2 THEN (e :> <<>>) ELSE Empty
    /\ fetch_failed' = {} /\ cold' = (DOMAIN node_cache = {})
    /\ added' = Empty /\ save_log' = "none" /\ last_pop' = "none"
    /\ UNCHANGED <<graph, file, node_cache, call_vars, load_log, fetched_ok, loaded,
                   saved, rl_vars>>

\* The loop condition, and "Path Not Found" when a queue is empty.
While ==
    /\ pc = "while"
    /\ IF queue_fwd # <<>> /\ queue_bwd # <<>>
       THEN pc' = "fwd_pop" /\ UNCHANGED outcome
       ELSE pc' = "finally" /\ outcome' = "Exhausted"
    /\ UNCHANGED <<graph, file, node_cache, search_vars, call_vars, raised, out_vars,
                   load_log, count_vars, searches, hist_vars, rl_vars>>

TooLongNever(p) == FALSE

\* The pruning test on a dequeued path.
TooLong(p) == Len(p) > DepthLimit

\* Forward popleft, the pruning test and the call of get_edges.
FwdPop ==
    /\ pc = "fwd_pop"
    /\ queue_fwd # <<>>
    /\ current' = Head(queue_fwd)[1]
    /\ path' = Head(queue_fwd)[2]
    /\ queue_fwd' = Tail(queue_fwd)
    /\ nodes_processed' = nodes_processed + 1
    /\ IF TooLong(Head(queue_fwd)[2])
       THEN pc' = "while" /\ UNCHANGED <<node_uri, side, gets>>
       ELSE /\ pc' = "get_edges" /\ node_uri' = Head(queue_fwd)[1] /\ side' = "fwd"
            /\ gets' = gets + 1
    /\ last_pop' = "fwd"
    /\ UNCHANGED <<graph, file, node_cache, start_node, end_node, paths_fwd, queue_bwd,
                   paths_bwd, edges, raised, out_vars, outcome, load_log, waits, requests,
                   saves, searches, fetch_hist, loaded, saved, added, save_log, faults,
                   rl_vars>>

\* Backward popleft, the pruning test and the call of get_edges.
BwdPop ==
    /\ pc = "bwd_pop"
    /\ queue_bwd # <<>>
    /\ current' = Head(queue_bwd)[1]
    /\ path' = Head(queue_bwd)[2]
    /\ queue_bwd' = Tail(queue_bwd)
    /\ nodes_processed' = nodes_processed + 1
    /\ IF TooLong(Head(queue_bwd)[2])
       THEN pc' = "while" /\ UNCHANGED <<node_uri, side, gets>>
       ELSE /\ pc' = "get_edges" /\ node_uri' = Head(queue_bwd)[1] /\ side' = "bwd"
            /\ gets' = gets + 1
    /\ last_pop' = "bwd"
    /\ UNCHANGED <<graph, file, node_cache, start_node, end_node, paths_bwd, queue_fwd,
                   paths_fwd, edges, raised, out_vars, outcome, load_log, waits, requests,
                   saves, searches, fetch_hist, loaded, saved, added, save_log, faults,
                   rl_vars>>

CacheHitNever(cache, n) == FALSE

WaitSkipped(w) == w

\* rate_limiter.wait() has been called and has returned once more.
WaitReturned(w) == w + 1

UnwindPastFinally == "raised"

\* Where an exception raised in the body of find_path's try goes first.
Unwind == "finally"

StoreAlone(cache, n, es, o) == IF o = "KeyError" THEN cache ELSE (n :> es)

\* get_edges, the cache test.
CacheHit(cache, n) == n \in DOMAIN cache

\* get_edges on a cached node: the cached list is returned.
GetEdgesHit ==
    /\ pc = "get_edges"
    /\ CacheHit(node_cache, node_uri)
    /\ edges' = node_cache[node_uri]
    /\ pc' = "scan"
    /\ UNCHANGED <<graph, file, node_cache, search_vars, node_uri, side, raised, out_vars,
                   outcome, load_log, count_vars, searches, hist_vars, rl_vars>>

\* get_edges on a node not cached: rate_limiter.wait() is called.
GetEdgesWait ==
    /\ pc = "get_edges"
    /\ ~CacheHit(node_cache, node_uri)
    /\ Enter(Caller)
    /\ pc' = "wait"
    /\ UNCHANGED <<graph, file, node_cache, search_vars, call_vars, raised, out_vars,
                   outcome, load_log, count_vars, searches, hist_vars>>

\* Inside wait(): the lock is taken, the elapsed time is tested, and the
\* clock runs while the caller sleeps, up to the time asked for.
WaitStep ==
    /\ pc = "wait"
    /\ \/ Acquire(Caller)
       \/ CheckElapsed(Caller)
       \/ tpc[Caller] = "sleep" /\ clock < wake[Caller] /\ Tick
       \/ WakeUp(Caller)
    /\ UNCHANGED engine_vars

\* time.sleep has not returned although the time asked for has passed: the
\* clock runs on.
Oversleep ==
    /\ pc = "wait"
    /\ tpc[Caller] = "sleep"
    /\ clock >= wake[Caller]
    /\ faults < MaxFaults
    /\ faults' = faults + 1
    /\ clock' = clock + 1
    /\ UNCHANGED <<graph, file, node_cache, pc, search_vars, call_vars, raised, out_vars,
                   outcome, load_log, count_vars, searches, fetch_hist, loaded, saved,
                   added, save_log, last_pop, last_request_time, lock, tpc, now, wake,
                   prev_permit, permits>>

\* wait() sets last_request_time, releases the lock and returns.
WaitReturn ==
    /\ pc = "wait"
    /\ Stamp(Caller)
    /\ waits' = WaitReturned(waits)
    /\ pc' = "request"
    /\ UNCHANGED <<graph, file, node_cache, search_vars, call_vars, raised, out_vars,
                   outcome, load_log, nodes_processed, gets, requests, saves, searches,
                   hist_vars>>

\* The cache after the request for node n ended with outcome o and the
\* parsed edge list es: get_edges stores the list whenever no exception
\* leaves it, so also after a RequestException.
StoreAfterFetch(cache, n, es, o) ==
    IF o = "KeyError" THEN cache ELSE (n :> es) @@ cache

\* The edge list get_edges builds when the request ended with outcome o.
Reply(o) ==
    IF o = "ok" THEN ParseEdges(Query(graph.edges, node_uri), 1, node_uri) ELSE <<>>

\* The faults of a request: its failure, its slowness.
FetchFaults(o, d) == (IF o = "ok" THEN 0 ELSE 1) + (IF d = 0 THEN 0 ELSE 1)

\* get_edges from session.get to the store of line 109: the request is out
\* for d ticks, the reply is parsed and the list stored; a RequestException
\* leaves the list empty; any other exception (a reply of an unexpected
\* shape) leaves get_edges before the store.
Fetched(o, d) ==
    /\ clock' = clock + d
    /\ requests' = requests + 1
    /\ node_cache' = StoreAfterFetch(node_cache, node_uri, Reply(o), o)
    /\ fetched_ok' = IF o = "ok" /\ node_uri \notin DOMAIN fetched_ok
                     THEN (node_uri :> Reply(o)) @@ fetched_ok ELSE fetched_ok
    /\ added' = IF o = "KeyError" THEN added ELSE (node_uri :> Reply(o)) @@ added
    /\ fetch_failed' = IF o = "ok" THEN fetch_failed ELSE fetch_failed \cup {node_uri}
    /\ UNCHANGED <<last_request_time, lock, tpc, now, wake, prev_permit, permits>>

\* The request of get_edges and what follows it: the stored list is
\* returned to find_path, or the exception travels to the finally clause of
\* find_path.
GetEdgesRequest(o, d) ==
    /\ pc = "request"
    /\ o \in OutcomesFor(node_uri)
    /\ faults + FetchFaults(o, d) <= MaxFaults
    /\ faults' = faults + FetchFaults(o, d)
    /\ Fetched(o, d)
    /\ IF o = "KeyError"
       THEN /\ raised' = "KeyError"
            /\ outcome' = "Error"
            /\ pc' = Unwind
            /\ UNCHANGED edges
       ELSE /\ edges' = Reply(o)
            /\ pc' = "scan"
            /\ UNCHANGED <<raised, outcome>>
    /\ UNCHANGED <<graph, file, search_vars, node_uri, side, out_vars, load_log, cold,
                   nodes_processed, gets, waits, saves, searches, loaded, saved, save_log,
                   last_pop>>

\* What every KeyboardInterrupt inside the try of find_path does: the
\* exception travels to the finally clause.
Interrupted ==
    /\ raised' = "KeyboardInterrupt"
    /\ outcome' = "Error"
    /\ pc' = Unwind
    /\ UNCHANGED <<graph, file, start_node, end_node, call_vars, load_log, gets, waits,
                   saves, searches, cold, loaded, saved, save_log>>

\* KeyboardInterrupt at the loop test, in the prints around the loop, or in
\* a get_edges call that has not got further than its cache test.
InterruptLoop ==
    /\ pc \in {"while", "get_edges"}
    /\ faults < MaxFaults
    /\ faults' = faults + 1
    /\ Interrupted
    /\ UNCHANGED <<node_cache, queue_fwd, paths_fwd, queue_bwd, paths_bwd, current, path,
                   out_vars, nodes_processed, requests, fetch_hist, added, last_pop,
                   rl_vars>>

\* How much of a dequeue is done when it is cut short: nothing, popleft(),
\* the assignment of the popped pair, nodes_processed += 1.
PopStages == 0..3

\* KeyboardInterrupt in lines 177-188 or 210-214.
InterruptPop(stage) ==
    /\ pc \in {"fwd_pop", "bwd_pop"}
    /\ faults < MaxFaults
    /\ faults' = faults + 1
    /\ LET q == IF pc = "fwd_pop" THEN queue_fwd ELSE queue_bwd
           popped == IF stage >= 1 THEN Tail(q) ELSE q
       IN  /\ q # <<>>
           /\ IF pc = "fwd_pop"
              THEN queue_fwd' = popped /\ UNCHANGED queue_bwd
              ELSE queue_bwd' = popped /\ UNCHANGED queue_fwd
           /\ last_pop' = IF stage = 0 THEN last_pop
                          ELSE IF pc = "fwd_pop" THEN "fwd" ELSE "bwd"
           /\ current' = IF stage >= 2 THEN Head(q)[1] ELSE current
           /\ path' = IF stage >= 2 THEN Head(q)[2] ELSE path
           /\ nodes_processed' = IF stage >= 3 THEN nodes_processed + 1
                                 ELSE nodes_processed
    /\ Interrupted
    /\ UNCHANGED <<node_cache, paths_fwd, paths_bwd, out_vars, requests, fetch_hist,
                   added, rl_vars>>

\* KeyboardInterrupt in wait(): the caller leaves the with block, so the
\* lock is free again, and wait() does not return.  The exception arrives
\* with no more done than the position says, or after now has been read, or
\* after line 33 has set last_request_time.
InterruptWait ==
    /\ pc = "wait"
    /\ faults < MaxFaults
    /\ faults' = faults + 1
    /\ \/ /\ tpc' = [tpc EXCEPT ![Caller] = "idle"]
          /\ lock' = Released(Caller)
          /\ UNCHANGED <<clock, last_request_time, now, wake, prev_permit, permits>>
       \/ /\ tpc[Caller] = "locked"
          /\ now' = [now EXCEPT ![Caller] = clock]
          /\ tpc' = [tpc EXCEPT ![Caller] = "idle"]
          /\ lock' = Released(Caller)
          /\ UNCHANGED <<clock, last_request_time, wake, prev_permit, permits>>
       \/ Stamp(Caller)
    /\ Interrupted
    /\ UNCHANGED <<node_cache, queue_fwd, paths_fwd, queue_bwd, paths_bwd, current, path,
                   out_vars, nodes_processed, requests, fetch_hist, added, last_pop>>

\* KeyboardInterrupt in get_edges after wait(): before session.get has
\* sent anything; while the request is out or the reply is read, with
\* nothing stored; in the print of line 105, after the RequestException was
\* caught and before the store of line 109; or after line 109 has stored
\* the list, before get_edges returns it.
InterruptRequest(o, d) ==
    /\ pc = "request"
    /\ o \in OutcomesFor(node_uri)
    /\ \/ /\ faults < MaxFaults
          /\ faults' = faults + 1
          /\ UNCHANGED <<node_cache, requests, fetch_hist, added, rl_vars>>
       \/ /\ faults + FetchFaults("ok", d) < MaxFaults
          /\ faults' = faults + FetchFaults("ok", d) + 1
          /\ clock' = clock + d
          /\ requests' = requests + 1
          /\ UNCHANGED <<node_cache, fetch_hist, added, last_request_time, lock, tpc,
                         now, wake, prev_permit, permits>>
       \/ /\ o = "RequestException"
          /\ faults + FetchFaults(o, d) < MaxFaults
          /\ faults' = faults + FetchFaults(o, d) + 1
          /\ clock' = clock + d
          /\ requests' = requests + 1
          /\ fetch_failed' = fetch_failed \cup {node_uri}
          /\ UNCHANGED <<node_cache, fetched_ok, cold, added, last_request_time, lock,
                         tpc, now, wake, prev_permit, permits>>
       \/ /\ o # "KeyError"
          /\ faults + FetchFaults(o, d) < MaxFaults
          /\ faults' = faults + FetchFaults(o, d) + 1
          /\ Fetched(o, d)
          /\ UNCHANGED cold
    /\ Interrupted
    /\ UNCHANGED <<queue_fwd, paths_fwd, queue_bwd, paths_bwd, current, path, out_vars,
                   nodes_processed, last_pop>>

\* What reconstruct_and_print_path has printed when it is cut short:
\* nothing, or the start node and some of the steps.
PrintedSoFar(out) ==
    {NoOutput} \cup {[head |-> out.head, steps |-> SubSeq(out.steps, 1, j)] :
                        j \in 0..Len(out.steps)}

\* KeyboardInterrupt in the loop over the returned edges, k of them done:
\* between two edges; after line 205 (230) has recorded the next neighbor
\* and before line 206 (232) has queued it; or, the next neighbor being one
\* the other frontier has visited, in the prints of the path found.
InterruptScan(k) ==
    /\ pc = "scan"
    /\ faults < MaxFaults
    /\ faults' = faults + 1
    /\ k \in 0..Len(edges)
    /\ LET fwd == side = "fwd"
           paths_own == IF fwd THEN paths_fwd ELSE paths_bwd
           queue_own == IF fwd THEN queue_fwd ELSE queue_bwd
           paths_other == IF fwd THEN paths_bwd ELSE paths_fwd
           r == ScanEdges(SubSeq(edges, 1, k), 1, path, paths_own, queue_own, paths_other)
           Left(p, q) ==
               IF fwd THEN paths_fwd' = p /\ queue_fwd' = q /\ UNCHANGED <<paths_bwd, queue_bwd>>
               ELSE paths_bwd' = p /\ queue_bwd' = q /\ UNCHANGED <<paths_fwd, queue_fwd>>
       IN  /\ ~r.found
           /\ \/ Left(r.paths, r.queue) /\ UNCHANGED out_vars
              \/ /\ k < Len(edges)
                 /\ edges[k + 1].nbr \notin DOMAIN paths_other \cup DOMAIN r.paths
                 /\ Left(r.paths @@ (edges[k + 1].nbr :> Append(path, PathStep(edges[k + 1]))),
                         r.queue)
                 /\ UNCHANGED out_vars
              \/ /\ k < Len(edges)
                 /\ edges[k + 1].nbr \in DOMAIN paths_other
                 /\ Left(r.paths, r.queue)
                 /\ LET new_path == Append(path, PathStep(edges[k + 1]))
                        other_path == paths_other[edges[k + 1].nbr]
                        p_fwd == IF fwd THEN new_path ELSE other_path
                        p_bwd == IF fwd THEN other_path ELSE new_path
                    IN  /\ half_fwd' = p_fwd /\ half_bwd' = p_bwd
                        /\ printed' \in PrintedSoFar(ReconstructPath(start_node, end_node,
                                                                      p_fwd, p_bwd))
    /\ Interrupted
    /\ UNCHANGED <<node_cache, current, path, nodes_processed, requests, fetch_hist,
                   added, last_pop, rl_vars>>

\* KeyboardInterrupt arrives inside the try of find_path.
Interrupt ==
    \/ InterruptLoop
    \/ \E stage \in PopStages : InterruptPop(stage)
    \/ InterruptWait
    \/ \E o \in FetchOutcomes, d \in 0..MaxLatency : InterruptRequest(o, d)
    \/ \E k \in 0..Len(edges) : InterruptScan(k)

\* The loop over the returned edges, for the frontier that asked; on an
\* intersection the path is reconstructed and printed and find_path returns
\* through its finally clause.
Scan ==
    /\ pc = "scan"
    /\ IF side = "fwd"
       THEN LET r == ScanEdges(edges, 1, path, paths_fwd, queue_fwd, paths_bwd)
            IN  IF r.found
                THEN /\ half_fwd' = r.new_path /\ half_bwd' = r.other_path
                     /\ printed' = ReconstructPath(start_node, end_node,
                                                   r.new_path, r.other_path)
                     /\ outcome' = "Found" /\ pc' = "finally"
                     /\ paths_fwd' = r.paths /\ queue_fwd' = r.queue
                ELSE /\ paths_fwd' = r.paths /\ queue_fwd' = r.queue
                     /\ pc' = "bwd_pop"
                     /\ UNCHANGED <<out_vars, outcome>>
       ELSE LET r == ScanEdges(edges, 1, path, paths_bwd, queue_bwd, paths_fwd)
            IN  IF r.found
                THEN /\ half_fwd' = r.other_path /\ half_bwd' = r.new_path
                     /\ printed' = ReconstructPath(start_node, end_node,
                                                   r.other_path, r.new_path)
                     /\ outcome' = "Found" /\ pc' = "finally"
                     /\ paths_bwd' = r.paths /\ queue_bwd' = r.queue
                ELSE /\ paths_bwd' = r.paths /\ queue_bwd' = r.queue
                     /\ pc' = "while"
                     /\ UNCHANGED <<out_vars, outcome>>
    /\ IF side = "fwd" THEN UNCHANGED <<paths_bwd, queue_bwd>>
       ELSE UNCHANGED <<paths_fwd, queue_fwd>>
    /\ UNCHANGED <<graph, file, node_cache, start_node, end_node, current, path,
                   call_vars, raised, load_log, count_vars, searches, hist_vars, rl_vars>>

\* How save_cache can end.  file: what it leaves on disk (the old file when
\* open() was not reached or failed, a file cut short when the write did
\* not finish, the new file once the with block has closed it); log: the
\* line it printed last; interrupted: a KeyboardInterrupt ended it.  An
\* IOError is caught and reported, so a save that prints nothing was
\* interrupted.
SaveOutcomes ==
    {o \in [file : {"old", "cut", "new"},
            log : {"none", "Save complete", "Could not save cache"},
            interrupted : BOOLEAN] :
        /\ o.log = "Save complete" => o.file = "new"
        /\ o.log = "Could not save cache" => o.file # "new"
        /\ o.log = "none" => o.interrupted}

\* The faults an outcome of save_cache takes: the IOError, the interrupt.
SaveFaults(o) ==
    (IF o.log = "Could not save cache" THEN 1 ELSE 0) + (IF o.interrupted THEN 1 ELSE 0)

\* The file open(cache_file, 'w') and an unfinished json.dump leave behind:
\* empty or cut short, and not JSON either way.
Truncated == [kind |-> "corrupt", map |-> Empty]

\* The finally clause: save_cache (an IOError is caught and printed, a
\* KeyboardInterrupt is not caught), then find_path returns or raises.
\* Nothing in the program catches what find_path raises: the exception
\* ends the process.
SaveCache(o) ==
    /\ pc = "finally"
    /\ faults + SaveFaults(o) <= MaxFaults
    /\ faults' = faults + SaveFaults(o)
    /\ saves' = saves + 1
    /\ file' = IF o.file = "new" THEN Dump(node_cache)
               ELSE IF o.file = "old" THEN file
               ELSE Truncated
    /\ saved' = IF o.file = "new" THEN node_cache ELSE saved
    /\ save_log' = o.log
    /\ raised' = IF o.interrupted THEN "KeyboardInterrupt" ELSE raised
    /\ pc' = IF raised' = "none" THEN "idle" ELSE "raised"
    /\ UNCHANGED <<graph, node_cache, search_vars, call_vars, out_vars, outcome,
                   load_log, nodes_processed, gets, waits, requests, searches, fetch_hist,
                   loaded, added, last_pop, rl_vars>>

\* The process ends after a find_path call and the program is started
\* again where it left a cache file: only the file outlives the engine.
\* The monotonic clock of the new process reads what it read at Init (its
\* reference point is undefined from one process to the next).
Restart ==
    /\ pc \in {"idle", "raised"}
    /\ outcome # "none"
    /\ file # Absent
    /\ searches < MaxSearches
    /\ pc' = "new"
    /\ node_cache' = Empty
    /\ queue_fwd' = <<>> /\ paths_fwd' = Empty
    /\ queue_bwd' = <<>> /\ paths_bwd' = Empty
    /\ current' = 0 /\ path' = <<>>
    /\ node_uri' = 0 /\ side' = "none" /\ edges' = <<>>
    /\ raised' = "none"
    /\ printed' = NoOutput
    /\ outcome' = "none" /\ load_log' = "none"
    /\ nodes_processed' = 0 /\ gets' = 0 /\ waits' = 0 /\ requests' = 0 /\ saves' = 0
    /\ fetched_ok' = Empty /\ fetch_failed' = {} /\ cold' = TRUE
    /\ loaded' = Empty /\ added' = Empty
    /\ save_log' = "none" /\ last_pop' = "none"
    /\ start_node' = 0 /\ end_node' = 0
    /\ half_fwd' = <<>> /\ half_bwd' = <<>>
    /\ last_request_time' = 0 /\ lock' = 0
    /\ tpc' = [t \in Threads |-> "idle"]
    /\ now' = [t \in Threads |-> 0]
    /\ wake' = [t \in Threads |-> 0]
    /\ prev_permit' = 0 /\ permits' = 0
    /\ clock' = Delay
    /\ UNCHANGED <<graph, file, searches, saved, faults>>

Next ==
    \/ LoadCache
    \/ LoadCacheInterrupted
    \/ \E s, e \in graph.ids : FindPath(s, e)
    \/ \E s, e \in graph.ids, stage \in SetupStages : FindPathInterrupted(s, e, stage)
    \/ While
    \/ FwdPop
    \/ BwdPop
    \/ GetEdgesHit
    \/ GetEdgesWait
    \/ WaitStep
    \/ Oversleep
    \/ WaitReturn
    \/ \E o \in FetchOutcomes, d \in 0..MaxLatency : GetEdgesRequest(o, d)
    \/ Interrupt
    \/ Scan
    \/ \E o \in SaveOutcomes : SaveCache(o)
    \/ Restart

Spec == Init /\ [][Next]_vars

\* The engine keeps running once find_path has been called; callers need
\* not call again.
Step ==
    \/ LoadCache
    \/ While
    \/ FwdPop
    \/ BwdPop
    \/ GetEdgesHit
    \/ GetEdgesWait
    \/ WaitStep
    \/ Oversleep
    \/ WaitReturn
    \/ \E o \in FetchOutcomes, d \in 0..MaxLatency : GetEdgesRequest(o, d)
    \/ Scan
    \/ \E o \in SaveOutcomes : SaveCache(o)

\* One process, left to run: no KeyboardInterrupt inside the search.
NextLive ==
    \/ \E s, e \in graph.ids : FindPath(s, e)
    \/ Step

SpecLive == Init /\ [][NextLive]_vars /\ WF_vars(Step)

\* --------------------------------------------------------------- the graph
\* The nodes one edge away from a set of nodes, edges usable both ways.
Around(g, S) ==
    S \cup {g[i].end : i \in {j \in 1..Len(g) : g[j].start \in S}}
      \cup {g[i].start : i \in {j \in 1..Len(g) : g[j].end \in S}}

RECURSIVE Ball(_, _, _)
Ball(g, S, k) == IF k = 0 THEN S ELSE Ball(g, Around(g, S), k - 1)

\* start_node and end_node are joined by a path of at most k edges.
JoinedWithin(k) == end_node \in Ball(graph.edges, {start_node}, k)

SameComponent == JoinedWithin(Len(graph.edges))

Returned == pc \in {"idle", "raised"} /\ outcome # "none"

\* ------------------------------------------------------------------ claims
\* C1: every key of the adjacency cache was obtained from a fetch that
\* completed without a transport or protocol error (a failed fetch for n
\* leaves n out of the cache).
C1_OnlySuccessfulFetchesCached ==
    DOMAIN node_cache \subseteq (DOMAIN fetched_ok \cup DOMAIN loaded)

\* C2: a get_edges call for a node whose fetch once succeeded waits on no
\* throttle and sends no request, and what it returns (it returns unless a
\* KeyboardInterrupt ends it) is the edge sequence that fetch returned.
C2_CachedNodeServedFromCache ==
    [][(pc = "get_edges" /\ node_uri \in DOMAIN fetched_ok)
        => (/\ waits' = waits
            /\ requests' = requests
            /\ raised' # "KeyboardInterrupt"
                  => (pc' = "scan" /\ edges' = fetched_ok[node_uri]))]_vars

C2_Witness ==
    /\ pc = "scan"
    /\ searches = 2
    /\ node_uri \in DOMAIN fetched_ok
    /\ edges = fetched_ok[node_uri]
    /\ edges # <<>>
    /\ requests = 0 /\ waits = 0

\* C3: with start # end joined by a path of at most 10 edges, a cache that
\* is empty when find_path is called and every fetch succeeding, find_path
\* eventually reports Found and never reports Exhausted.
C3_JoinedWithinDepthIsFound ==
    /\ [](( pc = "while" /\ cold /\ JoinedWithin(DepthLimit))
            => <>(outcome = "Found" \/ fetch_failed # {} \/ raised = "KeyboardInterrupt"))
    /\ []((cold /\ JoinedWithin(DepthLimit) /\ fetch_failed = {})
            => outcome # "Exhausted")

C3_Witness ==
    /\ outcome = "Found" /\ pc = "idle" /\ cold /\ fetch_failed = {}
    /\ Len(half_fwd) + Len(half_bwd) = DepthLimit

\* C4: with start and end in different connected components, find_path
\* ends in Exhausted, whichever fetches fail.
C4_DisconnectedIsExhausted ==
    (Returned /\ start_node # end_node /\ ~SameComponent /\ raised # "KeyboardInterrupt")
        => outcome = "Exhausted"

\* C5: a failed fetch hands an empty edge sequence to the engine and
\* find_path ends in Found or Exhausted; no error leaves find_path.
C5_FetchFailureNeverAborts ==
    /\ (pc = "scan" /\ node_uri \in fetch_failed) => edges = <<>>
    /\ (pc \in {"finally", "idle", "raised"} /\ raised # "KeyboardInterrupt")
           => (raised = "none" /\ outcome # "Error")

\* C6: every find_path call, whatever its arguments and however it ends,
\* has saved the cache exactly once when it returns.
C6_SavedOncePerCall == Returned => saves = 1

\* C8: find_path(x, x), left to run, reports success at once: nothing is
\* dequeued, get_edges is not called, the throttle is not waited on and no
\* request is sent.
C8_SameNodeIsImmediate ==
    (outcome # "none" /\ start_node = end_node /\ raised # "KeyboardInterrupt")
        => (/\ pc = "idle" /\ outcome = "Same"
            /\ nodes_processed = 0 /\ gets = 0 /\ waits = 0 /\ requests = 0)

C8_Witness ==
    /\ searches = 2 /\ start_node = end_node /\ outcome = "Same"
    /\ start_node \notin DOMAIN node_cache
    /\ DOMAIN node_cache # {}

\* What three-element records an in-memory edge list holds, whichever Python
\* sequence type holds them.
Content(es) == [i \in 1..Len(es) |-> <<es[i].rel, es[i].nbr, es[i].dir>>]

\* The positions inside the try of find_path.
SearchBody == {"while", "fwd_pop", "bwd_pop", "get_edges", "wait", "request", "scan"}

\* C11: an exception raised inside the try of find_path goes to the finally
\* clause; there the mapping save_cache is handed holds every entry the
\* cache had when it was loaded and every entry get_edges stored during the
\* call; save_cache then runs, once, before the exception leaves find_path,
\* and the file of a save that completed decodes to those entries, each
\* under the key json.dump writes for its key.
C11_SavedOnAbnormalEnd ==
    /\ []((pc = "finally" /\ raised # "none") =>
            /\ saves = 0
            /\ (DOMAIN loaded \cup DOMAIN added) \subseteq DOMAIN node_cache
            /\ \A n \in DOMAIN loaded : node_cache[n] = loaded[n]
            /\ \A n \in DOMAIN added : node_cache[n] = added[n])
    /\ [][/\ (pc \in SearchBody /\ raised' # "none") => pc' = "finally"
          /\ (pc = "finally" /\ raised # "none") =>
                /\ pc' = "raised"
                /\ saves' = 1
                /\ save_log' = "Save complete" =>
                      /\ file'.kind = "object"
                      /\ \A n \in DOMAIN loaded \cup DOMAIN added :
                            JsonKey(n) \in DOMAIN file'.map
                      /\ \A n \in DOMAIN loaded :
                            file'.map[JsonKey(n)] = Content(loaded[n])
                      /\ \A n \in DOMAIN added :
                            file'.map[JsonKey(n)] = Content(added[n])
          /\ (pc' = "raised" /\ pc \notin {"idle", "raised"}) => pc = "finally"
         ]_vars

C11_Witness ==
    /\ pc = "raised" /\ raised = "KeyError"
    /\ save_log = "Save complete"
    /\ DOMAIN loaded # {} /\ DOMAIN added # {}
    /\ \E n \in DOMAIN added : added[n] # <<>>

\* C12: a request is sent only in a get_edges call whose own wait() has
\* returned and that has sent no request yet; a get_edges call that misses
\* the cache sends nothing and, unless a KeyboardInterrupt ends it, enters
\* wait(); nothing is sent from inside wait(); and the request is reached
\* only from the step in which wait() sets last_request_time and returns.
C12_WaitBeforeEveryRequest ==
    [][/\ requests' = requests + 1
            => (pc = "request" /\ waits = requests + 1 /\ tpc[Caller] = "idle")
       /\ (pc = "get_edges" /\ node_uri \notin DOMAIN node_cache)
              => (/\ requests' = requests
                  /\ raised' # "KeyboardInterrupt" => pc' = "wait")
       /\ pc = "wait" => requests' = requests
       /\ (pc' = "request" /\ pc # "request")
              => (/\ pc = "wait" /\ tpc[Caller] = "stamp"
                  /\ waits' = waits + 1 /\ waits' = requests' + 1
                  /\ permits' = permits + 1 /\ last_request_time' = clock)
      ]_vars

C12_Witness ==
    /\ pc = "scan" /\ requests = 2 /\ waits = 2
    /\ searches = 2 /\ DOMAIN loaded # {}
    /\ permits = 2 /\ last_request_time - prev_permit = Delay

FrontierPaths ==
    {paths_fwd[n] : n \in DOMAIN paths_fwd} \cup {paths_bwd[n] : n \in DOMAIN paths_bwd}
    \cup {queue_fwd[i][2] : i \in 1..Len(queue_fwd)}
    \cup {queue_bwd[i][2] : i \in 1..Len(queue_bwd)}

\* C14, as claimed: every recorded and every queued path has at most 10
\* edges.
C14_PathsWithinDepthLimit == \A p \in FrontierPaths : Len(p) <= DepthLimit

\* C14, amended: every recorded and every queued path has at most 11 edges,
\* and a node is expanded (get_edges called, its edges scanned) only with a
\* path of at most 10 edges.
C14_PathsWithinDepthLimitPlusOne ==
    /\ \A p \in FrontierPaths : Len(p) <= DepthLimit + 1
    /\ pc \in {"get_edges", "wait", "request", "scan"} => Len(path) <= DepthLimit

C14_Witness ==
    /\ pc = "while" /\ outcome = "running"
    /\ Len(path) = DepthLimit + 1
    /\ \E n \in DOMAIN paths_fwd : Len(paths_fwd[n]) = DepthLimit + 1
    /\ \E n \in DOMAIN paths_bwd : Len(paths_bwd[n]) = DepthLimit + 1

\* C15: the dequeues of a find_path call alternate, forward then backward:
\* no dequeue is from the queue the call dequeued from last, also when the
\* entry dequeued before was pruned.
C15_DequeuesAlternate ==
    [][nodes_processed' = nodes_processed + 1 => last_pop' # last_pop]_vars

\* The positions of the edge list being scanned whose neighbor the opposite
\* frontier has visited.
Meetings ==
    {i \in 1..Len(edges) :
        edges[i].nbr \in DOMAIN (IF side = "fwd" THEN paths_bwd ELSE paths_fwd)}

FirstMeeting == CHOOSE i \in Meetings : \A j \in Meetings : i <= j

\* The neighbors of the edges scanned before the first meeting.
SeenBeforeMeeting == {edges[i].nbr : i \in 1..(FirstMeeting - 1)}

\* C16: with start # end no node is ever a key of both visited maps; the
\* scan of an edge list holding a neighbor the opposite frontier has visited
\* ends the search in that step, with no further dequeue or get_edges call,
\* the meeting neighbor not recorded and no edge after it recorded; unless a
\* KeyboardInterrupt ends the scan, the search ends in Found and the two
\* halves end at that neighbor.
C16_FrontiersMeetOnce ==
    /\ [](start_node # end_node => DOMAIN paths_fwd \cap DOMAIN paths_bwd = {})
    /\ [][(pc = "scan" /\ Meetings # {})
            => /\ pc' = "finally"
               /\ nodes_processed' = nodes_processed /\ gets' = gets
               /\ DOMAIN paths_fwd' \subseteq DOMAIN paths_fwd \cup SeenBeforeMeeting
               /\ DOMAIN paths_bwd' \subseteq DOMAIN paths_bwd \cup SeenBeforeMeeting
               /\ raised' # "KeyboardInterrupt" =>
                     /\ outcome' = "Found"
                     /\ half_fwd' # <<>>
                           => half_fwd'[Len(half_fwd')].nbr = edges[FirstMeeting].nbr
                     /\ half_bwd' # <<>>
                           => half_bwd'[Len(half_bwd')].nbr = edges[FirstMeeting].nbr
          ]_vars

C16_Witness ==
    /\ pc = "finally" /\ outcome = "Found"
    /\ \E i, j \in 1..Len(edges) :
          /\ i < j
          /\ edges[i].nbr \in DOMAIN (IF side = "fwd" THEN paths_bwd ELSE paths_fwd)
          /\ edges[j].nbr \notin DOMAIN paths_fwd \cup DOMAIN paths_bwd

\* The nodes of the entries a step appended to a queue.
Appended(q, q2) == {q2[i][1] : i \in (Len(q) + 1)..Len(q2)}

\* One step of a call keeps every recorded path of a frontier and appends
\* to its queue only nodes the frontier had not visited, each once.
KeepsVisited(paths, paths2, q, q2) ==
    /\ \A n \in DOMAIN paths : n \in DOMAIN paths2 /\ paths2[n] = paths[n]
    /\ Appended(q, q2) \cap DOMAIN paths = {}
    /\ Len(q2) > Len(q) => Cardinality(Appended(q, q2)) = Len(q2) - Len(q)

NodesOf(q) == {q[i][1] : i \in 1..Len(q)}

\* C17: within a find_path call a frontier's queue never holds a node
\* twice, every queued node is a key of the frontier's visited map, and no
\* step changes the path recorded for a visited node (the origin included)
\* or appends a visited node to the queue.
C17_EnqueuedOncePerDirection ==
    /\ [](/\ Cardinality(NodesOf(queue_fwd)) = Len(queue_fwd)
          /\ Cardinality(NodesOf(queue_bwd)) = Len(queue_bwd)
          /\ NodesOf(queue_fwd) \subseteq DOMAIN paths_fwd
          /\ NodesOf(queue_bwd) \subseteq DOMAIN paths_bwd)
    /\ [][(pc \in {"while", "fwd_pop", "bwd_pop", "get_edges", "wait", "request",
                     "scan", "finally"})
            => /\ KeepsVisited(paths_fwd, paths_fwd', queue_fwd, queue_fwd')
               /\ KeepsVisited(paths_bwd, paths_bwd', queue_bwd, queue_bwd')
          ]_vars

C17_Witness ==
    /\ pc = "bwd_pop" /\ side = "fwd" /\ outcome = "running"
    /\ \E i, j \in 1..Len(edges) : i < j /\ edges[i].nbr = edges[j].nbr
    /\ Len(queue_fwd) = 1 /\ queue_fwd[1][1] # start_node

\* ------------------------------------------------------------- RateLimiter
\* A fresh RateLimiter shared by Threads; the monotonic clock reads anything
\* from 0 up when the limiter is made.
InitLimiter ==
    /\ graph = NoGraph /\ file = Absent /\ pc = "off"
    /\ SearchIdle
    /\ NoArguments
    /\ clock \in 0..Delay
    /\ last_request_time = 0 /\ lock = 0
    /\ tpc = [t \in Threads |-> "idle"]
    /\ now = [t \in Threads |-> 0]
    /\ wake = [t \in Threads |-> 0]
    /\ prev_permit = 0 /\ permits = 0

NextLimiter ==
    \/ \E t \in Threads : CallWait(t) /\ UNCHANGED engine_vars
    \/ \E t \in Threads : Acquire(t) /\ UNCHANGED engine_vars
    \/ \E t \in Threads : CheckElapsed(t) /\ UNCHANGED engine_vars
    \/ \E t \in Threads : WakeUp(t) /\ UNCHANGED engine_vars
    \/ \E t \in Threads : Stamp(t) /\ UNCHANGED engine_vars
    \/ Tick /\ UNCHANGED engine_vars

SpecLimiter == InitLimiter /\ [][NextLimiter]_vars

\* C7: with concurrent callers of wait() on one limiter, the check, sleep
\* and update of one call never interleave with those of another, and two
\* consecutive values of last_request_time are at least delay apart.
C7_ThrottleInterval ==
    /\ Cardinality({t \in Threads : tpc[t] \in {"locked", "sleep", "stamp"}}) <= 1
    /\ permits >= 2 => last_request_time - prev_permit >= Delay

C7_Witness ==
    /\ permits = 2
    /\ last_request_time - prev_permit = Delay
    /\ \E t, u \in Threads : tpc[t] = "sleep" /\ tpc[u] = "lock"

\* Fair scheduling of the callers: the clock keeps advancing, a caller that
\* can take its next step inside wait() takes it, and a caller for which the
\* lock is free again and again gets it.
SpecLimiterFair ==
    /\ InitLimiter /\ [][NextLimiter]_vars
    /\ WF_vars(Tick /\ UNCHANGED engine_vars)
    /\ \A t \in Threads :
          /\ SF_vars(Acquire(t) /\ UNCHANGED engine_vars)
          /\ WF_vars((CheckElapsed(t) \/ WakeUp(t) \/ Stamp(t)) /\ UNCHANGED engine_vars)

\* C18: under fair scheduling every call of wait() returns: no caller stays
\* at the lock, in the sleep or before the update for ever, and none is left
\* holding the lock.
C18_WaitReturns ==
    /\ \A t \in Threads : (tpc[t] # "idle") ~> (tpc[t] = "idle")
    /\ [](lock # 0 => tpc[lock] \in {"locked", "sleep", "stamp"})

C18_Witness ==
    /\ permits = MaxCalls
    /\ \A t \in Threads : tpc[t] = "idle" /\ wake[t] > 0
    /\ lock = 0
    /\ clock > MaxClock

\* ------------------------------------------------------ the reconstructor
\* The nodes half-paths run over, and the two kinds of step: an outgoing
\* IsA edge and an incoming PartOf edge.
PathNodes == {1, 2, 3}

StepKinds == {[rel |-> "IsA", dir |-> "-->"], [rel |-> "PartOf", dir |-> "<--"]}

\* The steps a half-path is made of, and the half-paths handed over.
Steps ==
    {[rel |-> k.rel, nbr |-> n, dir |-> k.dir, py |-> "tuple"] :
        k \in StepKinds, n \in PathNodes}

Halves == SeqsUpTo(Steps, MaxHalf)

\* The node a half-path from origin ends at.
EndOf(origin, half) == IF half = <<>> THEN origin ELSE half[Len(half)].nbr

\* reconstruct_and_print_path is about to be called with a forward and a
\* backward half-path that end at the same node.
InitReconstruct ==
    /\ graph = NoGraph /\ file = Absent /\ pc = "reconstruct"
    /\ SearchIdle
    /\ LimiterIdle
    /\ start_node \in PathNodes /\ end_node \in PathNodes
    /\ half_fwd \in Halves /\ half_bwd \in Halves
    /\ EndOf(start_node, half_fwd) = EndOf(end_node, half_bwd)

Reconstruct ==
    /\ pc = "reconstruct"
    /\ printed' = ReconstructPath(start_node, end_node, half_fwd, half_bwd)
    /\ pc' = "printed"
    /\ UNCHANGED <<graph, file, node_cache, search_vars, call_vars, raised, half_fwd,
                   half_bwd, outcome, load_log, count_vars, searches, hist_vars, rl_vars>>

NextReconstruct == Reconstruct

SpecReconstruct == InitReconstruct /\ [][NextReconstruct]_vars

Opposite(d) == IF d = "-->" THEN "<--" ELSE "-->"

\* The nodes of the printed chain, the start node first.
Chain_Nodes == <<printed.head>> \o [i \in 1..Len(printed.steps) |-> printed.steps[i].node]

\* C9: the reconstructor prints len(F)+len(B) steps: the steps of F in
\* order as recorded, then the steps of B last to first, each with its
\* direction flipped and with the node before it on the walk from end; the
\* chain of nodes starts at start, passes through the meeting node and ends
\* at end.
C9_ReconstructedChain ==
    pc = "printed" =>
        LET F == half_fwd
            B == half_bwd
            out == printed.steps
        IN  /\ Len(out) = Len(F) + Len(B)
            /\ \A i \in 1..Len(F) :
                   out[i] = [arrow |-> F[i].dir, rel |-> F[i].rel, node |-> F[i].nbr]
            /\ \A j \in 1..Len(B) :
                   LET k == Len(B) + 1 - j
                   IN  out[Len(F) + j] =
                           [arrow |-> Opposite(B[k].dir), rel |-> B[k].rel,
                            node |-> IF k = 1 THEN end_node ELSE B[k - 1].nbr]
            /\ Chain_Nodes[1] = start_node
            /\ Chain_Nodes[Len(F) + 1] = EndOf(end_node, B)
            /\ Chain_Nodes[Len(Chain_Nodes)] = end_node

C9_Witness ==
    /\ pc = "printed"
    /\ Len(half_fwd) = MaxHalf /\ Len(half_bwd) = MaxHalf
    /\ half_bwd[1].dir # half_bwd[2].dir
    /\ half_bwd[1].rel # half_bwd[2].rel
    /\ Len(printed.steps) = 2 * MaxHalf

\* --------------------------------------------------------------- the file
JsonEdges == {<<"IsA", n, d>> : n \in Nodes \cup {NoId}, d \in {"-->", "<--"}}

JsonMaps == UNION {[D -> SeqsUpTo(JsonEdges, 1)] : D \in SUBSET (Nodes \cup {NullKey})}

\* The cache file a constructor can meet: none, one that cannot be opened,
\* one whose bytes are not UTF-8, one that is not JSON, or a saved mapping.
FileStates ==
    {Absent}
    \cup {[kind |-> k, map |-> Empty] : k \in {"unreadable", "undecodable", "corrupt"}}
    \cup {[kind |-> "object", map |-> m] : m \in JsonMaps}

InitLoad ==
    /\ graph = NoGraph /\ pc = "new"
    /\ file \in FileStates
    /\ SearchIdle
    /\ NoArguments
    /\ LimiterIdle

NextLoad == LoadCache \/ LoadCacheInterrupted

SpecLoad == InitLoad /\ [][NextLoad]_vars

\* C10: load, left to run, never raises to its caller; with no file the
\* cache is empty, and with a file that is malformed, corrupt, unreadable
\* or undecodable the condition is logged and the cache is empty.
C10_LoadNeverRaises ==
    (pc # "new" /\ raised # "KeyboardInterrupt") =>
        /\ raised = "none"
        /\ file.kind = "absent" => node_cache = Empty
        /\ file.kind \in {"corrupt", "unreadable", "undecodable"}
               => (node_cache = Empty /\ load_log = "Cache file is corrupt")

\* ------------------------------------------------- the path that was found
\* Every step of a half-path is one of the edges the cache holds, so
\* get_edges returned, for the node the step leaves from.
ChainFrom(origin, half) ==
    \A i \in 1..Len(half) :
        LET from == IF i = 1 THEN origin ELSE half[i - 1].nbr
        IN  /\ from \in DOMAIN node_cache
            /\ \E k \in 1..Len(node_cache[from]) :
                   Content(<<node_cache[from][k]>>) = Content(<<half[i]>>)

\* C19: when find_path has found a path, the forward half is a chain of
\* returned edges from start, the backward half a chain of returned edges
\* from end, and both end at the same node, an empty half ending at its
\* origin.
C19_HalvesConnect ==
    outcome = "Found" =>
        /\ ChainFrom(start_node, half_fwd)
        /\ ChainFrom(end_node, half_bwd)
        /\ EndOf(start_node, half_fwd) = EndOf(end_node, half_bwd)

C19_Witness ==
    /\ outcome = "Found" /\ pc = "idle"
    /\ Len(half_fwd) >= 2 /\ Len(half_bwd) >= 2
    /\ \E i \in 1..Len(half_fwd) : half_fwd[i].dir = "<--"

\* C20: no step of an engine removes or changes a cache entry; the cache
\* changes only when get_edges stores the reply for the node it was called
\* with, which adds that one key; get_edges on a cached node leaves the
\* cache as it is and returns (unless a KeyboardInterrupt ends it) the
\* cached list.
C20_CacheOnlyGrowsByOneKey ==
    [][(pc # "new" /\ pc' # "new")
        => /\ \A n \in DOMAIN node_cache :
                n \in DOMAIN node_cache' /\ node_cache'[n] = node_cache[n]
           /\ DOMAIN node_cache' \subseteq DOMAIN node_cache \cup {node_uri}
           /\ node_cache' # node_cache => (pc = "request" /\ node_uri \notin DOMAIN node_cache)
           /\ (pc = "get_edges" /\ node_uri \in DOMAIN node_cache)
                 => (/\ node_cache' = node_cache
                     /\ raised' # "KeyboardInterrupt" => edges' = node_cache[node_uri])
      ]_vars

C20_Witness ==
    /\ pc = "scan" /\ requests >= 1
    /\ node_uri \in DOMAIN added
    /\ DOMAIN loaded # {}
    /\ node_uri \notin DOMAIN loaded
    /\ \A n \in DOMAIN loaded : node_cache[n] = loaded[n]

====
